---- MODULE Spec2Model ----
(***************************************************************************)
(* A model of the slog dispatch core (Logger), the FileHandler and the     *)
(* BufferedHandler.  Caller goroutines run logger operations step by step; *)
(* every lock acquisition, buffer access and sink write is a step of its   *)
(* own, so that the interleavings the Go scheduler allows are explored.    *)
(***************************************************************************)
EXTENDS Integers, Sequences, FiniteSets, TLC

\* ------------------------------------------------------------------ bounds
NumProcs == 2        \* caller goroutines (M)
MaxOps == 2          \* logger operations each caller issues (K)
RecLen == 2          \* bytes of one formatted record
bufferSize == 3      \* FileHandler.BuffSize (file.go:28), scaled down
MaxBufSize == 3      \* largest bufSize handed to NewBufferedHandler
MaxFaults == 2       \* I/O failures the environment injects in one run
MaxHandlers == 2     \* length of the logger's handler list

\* ------------------------------------------------------------ value spaces
Procs == 1..NumProcs
\* the goroutine FlushTimeout starts for caller p
Gor(p) == NumProcs + p
Threads == 1..(2 * NumProcs)
IsGor(t) == t > NumProcs

FileH == 1           \* a *FileHandler
BufH == 2            \* a *BufferedHandler wrapping a writer handler
SyncH == 3           \* the *SyncCloseHandler of Config.CreateHandler
Handlers == {FileH, BufH, SyncH}

AllLevels == {"panic", "fatal", "error", "info"}
ErrorFatal == {"error", "fatal"}

NoErr == <<0, "nil">>
Err(h, site) == <<h, site>>
NoRec == [id |-> <<0, 0>>, lv |-> "none"]

VARIABLES
    mu,          \* Logger.mu: 0 when free, else the thread holding it
    err,         \* Logger.err
    handlers,    \* Logger.handlers
    ExitFunc,    \* Logger.ExitFunc: "exit" (os.Exit) or "nothing"
    PanicFunc,   \* Logger.PanicFunc: "panic" (DefaultPanicFn) or "nothing"
    std,         \* the package's default logger: its mu, err and handlers
    processors,  \* Logger.processors
    recordPool,  \* Logger.recordPool: the records put back, each as the set of
                 \* its fields that are not at their zero value
    hd,          \* the handlers' fields
    th,          \* every thread's position and locals
    done,        \* FlushTimeout's done channel of each caller (capacity 1)
    term,        \* "run", or how the process ended: "exited", "panicked"
    faults,      \* I/O failures the environment may still inject
    registered,  \* history: handlers in the order their registration was asked
    handled,     \* history: per handler, the records Handle was invoked with
    unread,      \* history: the last error a handler call returned since LastErr ran
    emitted      \* history: the records logging calls were made with

vars == <<mu, err, handlers, ExitFunc, PanicFunc, std, processors, recordPool, hd, th, done, term, faults,
          registered, handled, unread, emitted>>

\* --------------------------------------------------------- pure functions

\* Formatter.Format: the record's bytes, each tagged with the record it is of
Format(r) == [i \in 1..RecLen |-> [id |-> r.id, lv |-> r.lv, i |-> i]]

\* bufio.NewWriterSize: a size <= 0 gets the default size
defaultBufSize == 4
BufioCap(size) == IF size <= 0 THEN defaultBufSize ELSE size

\* The outcomes the environment may pick for one I/O call
Outcomes == IF faults > 0 THEN {TRUE, FALSE} ELSE {TRUE}
Spend(ok) == IF ok THEN faults ELSE faults - 1

\* bufio.Writer.Flush on buffer contents b with sticky error e: what reaches
\* the underlying writer, the contents kept and the error returned.
BufioFlush(b, e, ok, h) ==
    IF e # NoErr THEN [buf |-> b, berr |-> e, out |-> <<>>, err |-> e]
    ELSE IF Len(b) = 0 THEN [buf |-> b, berr |-> e, out |-> <<>>, err |-> NoErr]
    ELSE IF ok THEN [buf |-> <<>>, berr |-> e, out |-> b, err |-> NoErr]
    ELSE [buf |-> b, berr |-> Err(h, "write"), out |-> <<>>, err |-> Err(h, "write")]

\* bufio.Writer.Write of bytes p on contents b (capacity c, sticky error e).
\* `out` accumulates what reached the underlying writer.
RECURSIVE BufioWriteLoop(_, _, _, _, _, _, _)
BufioWriteLoop(b, e, p, c, ok, h, out) ==
    IF Len(p) > c - Len(b) /\ e = NoErr
    THEN IF Len(b) = 0
         THEN \* large write, empty buffer: written directly
              IF ok THEN BufioWriteLoop(b, e, <<>>, c, ok, h, out \o p)
              ELSE BufioWriteLoop(b, Err(h, "write"), p, c, ok, h, out)
         ELSE LET n == c - Len(b)
                  full == b \o SubSeq(p, 1, n)
                  f == BufioFlush(full, e, ok, h)
              IN BufioWriteLoop(f.buf, f.berr, SubSeq(p, n + 1, Len(p)), c, ok, h,
                                out \o f.out)
    ELSE IF e # NoErr THEN [buf |-> b, berr |-> e, out |-> out, err |-> e]
    ELSE [buf |-> b \o p, berr |-> e, out |-> out, err |-> NoErr]

BufioWrite(b, e, p, c, ok, h) == BufioWriteLoop(b, e, p, c, ok, h, <<>>)

\* LevelsWithFormatter.IsHandling
IsHandling(h, lv) == lv \in hd[h].Levels

\* lockWrapper: a sync.Mutex, which Go does not let its holder re-enter
CanLock(h) == hd[h].lock = 0

\* ------------------------------------------------------------------- Init

\* handler.Config, the fields that decide what is built.  Logfile is "" or a
\* path; BackupTime is 0 (no age limit) and Compress off throughout.
MaxRotSize == 4      \* largest Config.MaxSize
MaxProcessors == 2   \* longest Logger.processors
Processors == {"hostname", "memoryUsage"}
MaxBackups == 2      \* largest Config.BackupNum
Configs ==
    [Logfile : {"", "app.log"}, Levels : {AllLevels}, BuffSize : {0, MaxBufSize},
     MaxSize : {0} \cup (RecLen..MaxRotSize), RotateTime : {0, 1},
     BackupNum : 0..MaxBackups]
NoConfig ==
    [Logfile |-> "", Levels |-> {}, BuffSize |-> 0, MaxSize |-> 0, RotateTime |-> 0,
     BackupNum |-> 0]

\* rotatefile.Config as CreateWriter fills it in; `rotate` says whether a
\* rotating writer was made at all
NoRotate == [rotate |-> FALSE, MaxSize |-> 0, RotateTime |-> 0, BackupNum |-> 0]
NoWriter == [err |-> NoErr, made |-> FALSE, rc |-> NoRotate, buffered |-> FALSE]

\* a CreateWriter that does not copy MaxSize to the rotate config
CreateWriterNoMaxSize(c, ok) ==
    IF c.Logfile = "" THEN [NoWriter EXCEPT !.err = Err(0, "logfile")]
    ELSE IF ~ok THEN [NoWriter EXCEPT !.err = Err(0, "open")]
    ELSE [err |-> NoErr, made |-> TRUE,
          rc |-> IF c.MaxSize > 0 \/ c.RotateTime > 0
                 THEN [rotate |-> TRUE, MaxSize |-> 0,
                       RotateTime |-> c.RotateTime, BackupNum |-> c.BackupNum]
                 ELSE NoRotate,
          buffered |-> c.BuffSize > 0]

\* a CreateWriter that does not copy BackupNum to the rotate config
CreateWriterNoBackupNum(c, ok) ==
    IF c.Logfile = "" THEN [NoWriter EXCEPT !.err = Err(0, "logfile")]
    ELSE IF ~ok THEN [NoWriter EXCEPT !.err = Err(0, "open")]
    ELSE [err |-> NoErr, made |-> TRUE,
          rc |-> IF c.MaxSize > 0 \/ c.RotateTime > 0
                 THEN [rotate |-> TRUE, MaxSize |-> c.MaxSize,
                       RotateTime |-> c.RotateTime, BackupNum |-> 0]
                 ELSE NoRotate,
          buffered |-> c.BuffSize > 0]

\* Config.CreateWriter: an empty Logfile is an error; a rotating writer is
\* made when MaxSize or RotateTime is set, a plain file opened otherwise; the
\* writer is wrapped in a buffer when BuffSize > 0.  `ok`: the open succeeds.
CreateWriter(c, ok) ==
    IF c.Logfile = "" THEN [NoWriter EXCEPT !.err = Err(0, "logfile")]
    ELSE IF ~ok THEN [NoWriter EXCEPT !.err = Err(0, "open")]
    ELSE [err |-> NoErr, made |-> TRUE,
          rc |-> IF c.MaxSize > 0 \/ c.RotateTime > 0
                 THEN [rotate |-> TRUE, MaxSize |-> c.MaxSize,
                       RotateTime |-> c.RotateTime, BackupNum |-> c.BackupNum]
                 ELSE NoRotate,
          buffered |-> c.BuffSize > 0]

\* Config.RotateWriter: MaxSize and RotateTime both 0 is an error
RotateWriter(c, ok) ==
    IF c.MaxSize = 0 /\ c.RotateTime = 0
    THEN [NoWriter EXCEPT !.err = Err(0, "norotate")]
    ELSE CreateWriter(c, ok)

\* NewFileHandler.  `file` is what the path holds; `open` are the file handles
\* open on the path, `fd` the one h.file is and `bfd` the one the bufio writer
\* wraps (0: no bufio writer).  (`asked` and `acc` are history: the levels the
\* caller configured, and the records a Handle of the handler returned nil for.)
NewFileHandler(noBuffer) ==
    [Levels |-> AllLevels, asked |-> AllLevels, lock |-> 0, buffer |-> <<>>,
     hasBuf |-> FALSE, berr |-> NoErr, file |-> <<>>, acc |-> {},
     fd |-> 1, bfd |-> 0, open |-> {1},
     cfg |-> NoConfig, rc |-> NoRotate, backups |-> <<>>, rots |-> 0,
     before |-> {},
     NoBuffer |-> noBuffer, BuffSize |-> bufferSize]

\* NewBufferedHandler
NewBufferedHandler(levels, bufSize) ==
    [Levels |-> levels, asked |-> levels, lock |-> 0, buffer |-> <<>>,
     hasBuf |-> TRUE, berr |-> NoErr, file |-> <<>>, acc |-> {},
     fd |-> 1, bfd |-> 1, open |-> {1},
     cfg |-> NoConfig, rc |-> NoRotate, backups |-> <<>>, rots |-> 0,
     before |-> {},
     NoBuffer |-> FALSE, BuffSize |-> bufSize]

\* a CreateHandler that leaves the config's levels out of the handler
CreateHandlerAnyLevel(cLevels) ==
    [Levels |-> AllLevels, asked |-> cLevels, lock |-> 0, buffer |-> <<>>,
     hasBuf |-> FALSE, berr |-> NoErr, file |-> <<>>, acc |-> {},
     fd |-> 1, bfd |-> 0, open |-> {1},
     cfg |-> NoConfig, rc |-> NoRotate, backups |-> <<>>, rots |-> 0,
     before |-> {},
     NoBuffer |-> TRUE, BuffSize |-> 0]

\* Config.CreateHandler, for a config with a log file and neither rotation nor
\* buffering asked for: the handler gets the config's levels.  (`asked` is
\* history: the levels the caller configured.)
CreateHandler(cLevels) ==
    [Levels |-> cLevels, asked |-> cLevels, lock |-> 0, buffer |-> <<>>,
     hasBuf |-> FALSE, berr |-> NoErr, file |-> <<>>, acc |-> {},
     fd |-> 1, bfd |-> 0, open |-> {1},
     cfg |-> NoConfig, rc |-> NoRotate, backups |-> <<>>, rots |-> 0,
     before |-> {},
     NoBuffer |-> TRUE, BuffSize |-> 0]

\* what a constructor was given and what it returned (history)
NoBuilt ==
    [kind |-> "none", cfg |-> NoConfig, h |-> 0, made |-> FALSE,
     sink |-> {}, wrap |-> "none", buffered |-> FALSE]

\* the call a caller has just returned from, what it returned and, for a
\* Flush, what the sinks held when it returned (history)
NoLast == [ctx |-> "none", ret |-> NoErr, sink |-> <<>>]

\* a thread outside any call.  `visited`, `fails`, `tcalls` and `last` are
\* history: the handlers the call has entered, the errors they returned to it,
\* the terminal actions it invoked, and the Flush just before it.
IdleThread ==
    [pc |-> "idle", ctx |-> "none", hop |-> "none", h |-> 0, rec |-> NoRec,
     iter |-> <<>>, idx |-> 0, herr |-> NoErr, ret |-> NoErr, snap |-> <<>>,
     ops |-> 0, visited |-> <<>>, fails |-> <<>>, tcalls |-> 0, timedOut |-> FALSE,
     last |-> NoLast, built |-> NoBuilt,
     fields |-> {}, released |-> FALSE, alias |-> 0, applied |-> <<>>,
     added |-> <<>>]

\* the handlers a caller may construct, by kind
Constructed(h) ==
    IF h = FileH THEN {NewFileHandler(nb) : nb \in BOOLEAN}
    ELSE IF h = BufH THEN {NewBufferedHandler(AllLevels, bs) : bs \in 1..MaxBufSize}
    ELSE {CreateHandler(lv) : lv \in {AllLevels, ErrorFatal}}

\* a handler nobody has constructed yet
Unbuilt == CreateHandler({})

\* an AddHandler that puts the new handler first
AddHandlerFirst(l, h) == <<h>> \o l

\* Logger.AddHandler
AddHandler(l, h) == Append(l, h)

\* Logger.AddHandlers, as NewWithHandlers calls it
RECURSIVE AddHandlers(_, _)
AddHandlers(l, hs) ==
    IF hs = <<>> THEN l ELSE AddHandlers(AddHandler(l, Head(hs)), Tail(hs))

\* the handler lists NewWithHandlers may be given
RECURSIVE ListsOver(_, _)
ListsOver(S, n) ==
    IF n = 0 THEN {<<>>}
    ELSE LET shorter == ListsOver(S, n - 1)
         IN shorter \cup {Append(l, h) : l \in shorter, h \in S}
NoRepeat(l) == \A i, j \in 1..Len(l) : i # j => l[i] # l[j]
Range(l) == {l[i] : i \in 1..Len(l)}
HandlerLists(S) == {l \in ListsOver(S, MaxHandlers) : NoRepeat(l)}

\* NewWithName, NewWithHandlers: the logger after construction, given the
\* handler lists to choose from, the failures the environment may inject and
\* the numbers of operations the callers may be about to issue
SetupStd(lists, stdLists, f, budgets) ==
    /\ mu = 0
    /\ err = NoErr
    /\ \E hs \in lists, ss \in stdLists :
         /\ handlers = AddHandlers(<<>>, hs)
         /\ registered = hs
         /\ std = [mu |-> 0, err |-> NoErr, handlers |-> AddHandlers(<<>>, ss)]
         /\ hd \in {c \in [Handlers -> UNION {Constructed(h) : h \in Handlers} \cup {Unbuilt}] :
                      \A h \in Handlers :
                         c[h] \in (IF h \in Range(hs) \cup Range(ss) THEN Constructed(h) ELSE {Unbuilt})}
    /\ ExitFunc = "exit"
    /\ PanicFunc = "panic"
    /\ processors = <<>>
    /\ recordPool = {}
    /\ \E budget \in budgets :
         th = [t \in Threads |-> [IdleThread EXCEPT !.ops = IF IsGor(t) THEN 0 ELSE budget[t]]]
    /\ done = [p \in Procs |-> FALSE]
    /\ term = "run"
    /\ faults = f
    /\ handled = [h \in Handlers |-> {}]
    /\ unread = NoErr
    /\ emitted = {}

\* the same with a default logger that has no handlers
Setup(lists, f, budgets) == SetupStd(lists, {<<>>}, f, budgets)

\* ---------------------------------------------------------------- helpers

Running(t) == term = "run"
At(t, l) == Running(t) /\ th[t].pc = l
Goto(t, r) == th' = [th EXCEPT ![t] = r]
HdSet(h, r) == hd' = [hd EXCEPT ![h] = r]
Bytes(t) == Format(th[t].rec)

\* h.file, and the file the bufio writer wraps, have been closed
Closed(h) == hd[h].fd \notin hd[h].open
BufClosed(h) == hd[h].bfd \notin hd[h].open

\* os.File.Write / Sync / Close: a closed file refuses, an open one may fail
IoOutcomes(h) == IF Closed(h) THEN {TRUE} ELSE Outcomes
BufOutcomes(h) == IF BufClosed(h) THEN {TRUE} ELSE Outcomes
FileErr(h, ok, site) ==
    IF Closed(h) THEN Err(h, "closed")
    ELSE IF ok THEN NoErr ELSE Err(h, site)

\* where a handler's Handle, Flush and Close begin
HandleEntry(h) == IF h = FileH THEN "fh_lock" ELSE IF h = BufH THEN "bh_lock" ELSE "sh_write"
FlushEntry(h) == IF h = FileH THEN "ff_flush" ELSE IF h = BufH THEN "bf_lock" ELSE "sf_sync"
\* a Close that closes the sink without flushing first
CloseEntryNoFlush(h) == IF h = FileH THEN "fc_close" ELSE IF h = BufH THEN "bc_close" ELSE "sc_close"

\* handler.Close(): FileHandler.Close and BufferedHandler.Close begin with Flush
CloseEntry(h) == IF h = FileH THEN "ff_flush" ELSE IF h = BufH THEN "bf_lock" ELSE "sc_close"

\* a caller may begin an operation
CanStart(t) == At(t, "idle") /\ ~IsGor(t) /\ th[t].ops > 0
Begin(t, ctx) ==
    [IdleThread EXCEPT !.ctx = ctx, !.ops = th[t].ops - 1, !.last = th[t].last,
                       !.added = th[t].added]

\* the call has returned: its locals are gone
Returned(t) ==
    /\ At(t, "ret")
    /\ Goto(t, [IdleThread EXCEPT
                   !.ops = th[t].ops,
                   !.added = th[t].added,
                   !.last = [ctx |-> th[t].ctx, ret |-> th[t].ret,
                             sink |-> IF th[t].ctx = "flush"
                                      THEN [h \in Handlers |-> hd[h].file]
                                      ELSE <<>>]])
    /\ UNCHANGED <<mu, err, handlers, ExitFunc, PanicFunc, std, processors, recordPool, hd, done, term, faults,
                   registered, handled, unread, emitted>>

\* --------------------------------------------------- Logger: logging calls

\* the mutable fields of a Record
RecordFields ==
    {"Level", "Message", "Time", "Ctx", "Fields", "Data", "Extra", "CallerSkip"}

\* t still refers to the record its call was handed
Holding(t) ==
    th[t].ctx \in {"log", "rlog"} /\ th[t].pc \notin {"idle", "ret", "dead"}

\* Logger.newRecord: recordPool.Get() hands out a record put back earlier, or
\* a new one with every field at its zero value.  A record put back while
\* its caller still refers to it is one of those the pool may hand out: `of`
\* is that caller, 0 for any other record.
newRecord ==
    {[fs |-> f, of |-> 0] : f \in recordPool \cup {{}}}
       \cup {[fs |-> th[p].fields, of |-> p] :
                p \in {q \in Threads : th[q].released /\ Holding(q)}}

\* Logger.releaseRecord: of the fields fs that hold a value, those that still
\* hold it when the record is put back
releaseRecord(fs) == fs \ {"Time", "Data", "Extra", "Fields", "CallerSkip"}

\* Record.log, and the processor chain Logger.write runs on the record
\* before the handlers see it
RecordLogged(fs) ==
    fs \cup {"Level", "Message", "Time"}
       \cup (IF processors # <<>> THEN {"Extra"} ELSE {})

\* Logger.log / Record.log: a record is taken from the pool, its caller skip
\* raised, its level and message set
Log(t, lv) ==
    /\ CanStart(t)
    /\ \E nr \in newRecord :
       LET r == [id |-> <<t, th[t].ops>>, lv |-> lv] IN
       /\ Goto(t, [Begin(t, "log") EXCEPT
                      !.pc = "w_lock", !.rec = r, !.alias = nr.of,
                      !.fields = RecordLogged(nr.fs \cup {"CallerSkip"}),
                      !.applied = processors])
       /\ emitted' = emitted \cup {r}
    /\ UNCHANGED <<mu, err, handlers, ExitFunc, PanicFunc, std, processors, recordPool, hd, done, term, faults,
                   registered, handled, unread>>

\* Logger.WithContext(ctx): a record is taken from the pool, its context set,
\* and the deferred releaseRecord puts it back as the call returns it
WithContext(t) ==
    /\ CanStart(t)
    /\ \E nr \in newRecord :
         /\ Goto(t, [Begin(t, "rlog") EXCEPT
                        !.pc = "r_log", !.released = TRUE, !.alias = nr.of,
                        !.fields = releaseRecord(nr.fs \cup {"Ctx"})])
         /\ recordPool' = recordPool \cup {releaseRecord(nr.fs \cup {"Ctx"})}
    /\ UNCHANGED <<mu, err, handlers, ExitFunc, PanicFunc, std, processors, hd, done, term,
                   faults, registered, handled, unread, emitted>>

\* r.Log(level, message) on the record WithContext returned
RecordLog(t, lv) ==
    /\ At(t, "r_log")
    /\ LET r == [id |-> <<t, th[t].ops + 1>>, lv |-> lv] IN
       /\ Goto(t, [th[t] EXCEPT !.pc = "w_lock", !.rec = r,
                                !.fields = RecordLogged(@),
                                !.applied = processors])
       /\ emitted' = emitted \cup {r}
    /\ UNCHANGED <<mu, err, handlers, ExitFunc, PanicFunc, std, processors, recordPool, hd, done, term, faults,
                   registered, handled, unread>>

\* Logger.write: the dispatch lock is taken before the fan-out
WriteLock(t) ==
    /\ At(t, "w_lock")
    /\ mu = 0
    /\ mu' = t
    /\ Goto(t, [th[t] EXCEPT !.pc = "w_loop", !.iter = handlers, !.idx = 1])
    /\ UNCHANGED <<err, handlers, ExitFunc, PanicFunc, std, processors, recordPool, hd, done, term, faults,
                   registered, handled, unread, emitted>>

\* Logger.write: the next handler of the list, skipped unless it handles the level
WriteLoop(t) ==
    /\ At(t, "w_loop")
    /\ LET me == th[t] IN
       IF me.idx > Len(me.iter)
       THEN Goto(t, [me EXCEPT !.pc = "w_after"]) /\ UNCHANGED handled
       ELSE LET h == me.iter[me.idx] IN
            IF IsHandling(h, me.rec.lv)
            THEN /\ Goto(t, [me EXCEPT !.pc = HandleEntry(h), !.h = h, !.hop = "handle",
                                       !.herr = NoErr,
                                       !.visited = Append(me.visited, h)])
                 /\ handled' = [handled EXCEPT ![h] = @ \cup {me.rec}]
            ELSE Goto(t, [me EXCEPT !.idx = me.idx + 1]) /\ UNCHANGED handled
    /\ UNCHANGED <<mu, err, handlers, ExitFunc, PanicFunc, std, processors, recordPool, hd, done, term, faults,
                   registered, unread, emitted>>

\* Logger.write: a handler's error is kept as the last error, the loop goes on
WriteHandled(t) ==
    /\ At(t, "h_ret")
    /\ th[t].ctx \in {"log", "rlog"}
    /\ LET me == th[t] IN
       /\ err' = IF me.herr # NoErr THEN me.herr ELSE err
       /\ unread' = IF me.herr # NoErr THEN me.herr ELSE unread
       /\ Goto(t, [me EXCEPT !.pc = "w_loop", !.idx = me.idx + 1,
                              !.fails = IF me.herr # NoErr THEN Append(@, me.herr) ELSE @])
    /\ UNCHANGED <<mu, handlers, ExitFunc, PanicFunc, std, processors, recordPool, hd, done, term, faults,
                   registered, handled, emitted>>

\* Logger.write, after the fan-out: PanicFunc at the panic level, Logger.Exit
\* (ExitFunc) at the fatal level.  The default PanicFunc unwinds through the
\* deferred unlock; the default ExitFunc ends the process.
WriteAfter(t) ==
    /\ At(t, "w_after")
    /\ LET me == th[t] IN
       IF me.rec.lv = "panic"
       THEN IF PanicFunc = "panic"
            THEN /\ term' = "panicked"
                 /\ mu' = 0
                 /\ Goto(t, [me EXCEPT !.pc = "dead", !.tcalls = me.tcalls + 1])
            ELSE /\ Goto(t, [me EXCEPT !.pc = "w_unlock", !.tcalls = me.tcalls + 1])
                 /\ UNCHANGED <<term, mu>>
       ELSE IF me.rec.lv = "fatal"
       THEN IF ExitFunc = "exit"
            THEN /\ term' = "exited"
                 /\ Goto(t, [me EXCEPT !.pc = "dead", !.tcalls = me.tcalls + 1])
                 /\ UNCHANGED mu
            ELSE /\ Goto(t, [me EXCEPT !.pc = "w_unlock", !.tcalls = me.tcalls + 1])
                 /\ UNCHANGED <<term, mu>>
       ELSE Goto(t, [me EXCEPT !.pc = "w_unlock"]) /\ UNCHANGED <<term, mu>>
    /\ UNCHANGED <<err, handlers, ExitFunc, PanicFunc, std, processors, recordPool, hd, done, faults,
                   registered, handled, unread, emitted>>

\* Logger.write: the deferred unlock
WriteUnlock(t) ==
    /\ At(t, "w_unlock")
    /\ mu' = 0
    /\ Goto(t, [th[t] EXCEPT !.pc = "release"])
    /\ UNCHANGED <<err, handlers, ExitFunc, PanicFunc, std, processors, recordPool, hd, done, term, faults,
                   registered, handled, unread, emitted>>

\* Logger.releaseRecord, the last statement of Logger.log
ReleaseRecord(t) ==
    /\ At(t, "release")
    /\ th[t].ctx = "log"
    /\ recordPool' = recordPool \cup {releaseRecord(th[t].fields)}
    /\ Goto(t, [th[t] EXCEPT !.pc = "ret", !.released = TRUE,
                             !.fields = releaseRecord(@)])
    /\ UNCHANGED <<mu, err, handlers, ExitFunc, PanicFunc, std, processors, hd, done, term,
                   faults, registered, handled, unread, emitted>>

\* Record.log returns to the caller of r.Log
RecordReturn(t) ==
    /\ At(t, "release")
    /\ th[t].ctx = "rlog"
    /\ Goto(t, [th[t] EXCEPT !.pc = "ret"])
    /\ UNCHANGED <<mu, err, handlers, ExitFunc, PanicFunc, std, processors, recordPool, hd, done, term, faults,
                   registered, handled, unread, emitted>>

\* ------------------------------------------------------------ FileHandler

loggerVars == <<mu, err, handlers, ExitFunc, PanicFunc, std, processors, recordPool>>
histVars == <<registered, handled, unread, emitted>>

\* FileHandler.Handle: h.Lock()
FhLock(t) ==
    /\ At(t, "fh_lock")
    /\ CanLock(th[t].h)
    /\ HdSet(th[t].h, [hd[th[t].h] EXCEPT !.lock = t])
    /\ Goto(t, [th[t] EXCEPT !.pc = "fh_write"])
    /\ UNCHANGED <<loggerVars, histVars, done, term, faults>>

\* FileHandler.Handle: the direct write when NoBuffer, else the bufio writer is
\* created when there is none and the write on it begins (it reads how much
\* the buffer holds)
FhWrite(t) ==
    /\ At(t, "fh_write")
    /\ LET me == th[t]
           h == me.h
       IN IF hd[h].NoBuffer
          THEN \E ok \in IoOutcomes(h) :
                 LET e == FileErr(h, ok, "write") IN
                 /\ HdSet(h, [hd[h] EXCEPT !.file = IF e = NoErr THEN @ \o Bytes(t) ELSE @])
                 /\ Goto(t, [me EXCEPT !.pc = "fh_unlock", !.herr = e])
                 /\ faults' = Spend(ok)
          ELSE /\ HdSet(h, [hd[h] EXCEPT !.hasBuf = TRUE,
                                         !.bfd = IF hd[h].hasBuf THEN @ ELSE hd[h].fd])
               /\ Goto(t, [me EXCEPT !.pc = "fh_store", !.snap = hd[h].buffer])
               /\ UNCHANGED faults
    /\ UNCHANGED <<loggerVars, histVars, done, term>>

\* the bufio write ends: bytes copied behind what the buffer held when the
\* write began, the buffer flushed to the file when the bytes do not fit
BufioStore(t, next) ==
    LET me == th[t]
        h == me.h
        c == BufioCap(hd[h].BuffSize)
        clean == BufioWrite(me.snap, hd[h].berr, Bytes(t), c, TRUE, h)
    IN \E ok \in (IF clean.out # <<>> THEN BufOutcomes(h) ELSE {TRUE}) :
         LET w == BufioWrite(me.snap, hd[h].berr, Bytes(t), c, ok /\ ~BufClosed(h), h) IN
         /\ HdSet(h, [hd[h] EXCEPT !.buffer = w.buf, !.berr = w.berr,
                                   !.file = @ \o w.out])
         /\ Goto(t, [me EXCEPT !.pc = next, !.herr = w.err, !.snap = <<>>])
         /\ faults' = Spend(ok)


\* FileHandler.Handle: h.bufio.Write(bts)
FhStore(t) ==
    /\ At(t, "fh_store")
    /\ BufioStore(t, "fh_unlock")
    /\ UNCHANGED <<loggerVars, histVars, done, term>>

\* FileHandler.Handle: the deferred h.Unlock()
FhUnlock(t) ==
    /\ At(t, "fh_unlock")
    /\ HdSet(th[t].h, [hd[th[t].h] EXCEPT
                         !.lock = 0,
                         !.acc = IF th[t].herr = NoErr THEN @ \cup {th[t].rec} ELSE @])
    /\ Goto(t, [th[t] EXCEPT !.pc = "h_ret"])
    /\ UNCHANGED <<loggerVars, histVars, done, term, faults>>

\* bufio.Writer.Flush begins: the buffered bytes are written to the sink
BufioFlushBegin(t, onErr, onWritten, onEmpty) ==
    LET me == th[t]
        h == me.h
        idle == hd[h].berr # NoErr \/ Len(hd[h].buffer) = 0
    IN \E ok \in (IF idle THEN {TRUE} ELSE BufOutcomes(h)) :
         LET f == BufioFlush(hd[h].buffer, hd[h].berr, ok /\ ~BufClosed(h), h) IN
         /\ HdSet(h, [hd[h] EXCEPT !.berr = f.berr, !.file = @ \o f.out])
         /\ Goto(t, [me EXCEPT !.herr = f.err,
                               !.pc = IF f.err # NoErr THEN onErr
                                      ELSE IF f.out # <<>> THEN onWritten
                                      ELSE onEmpty])
         /\ faults' = Spend(ok)

\* FileHandler.Flush: h.bufio.Flush() when there is a bufio writer.  No lock
\* is taken.
FfFlush(t) ==
    /\ At(t, "ff_flush")
    /\ IF hd[th[t].h].hasBuf
       THEN BufioFlushBegin(t, "h_ret", "ff_reset", "ff_sync")
       ELSE /\ Goto(t, [th[t] EXCEPT !.pc = "ff_sync"])
            /\ UNCHANGED <<hd, faults>>
    /\ UNCHANGED <<loggerVars, histVars, done, term>>

\* bufio.Writer.Flush ends: the buffer is marked empty
FfReset(t) ==
    /\ At(t, "ff_reset")
    /\ HdSet(th[t].h, [hd[th[t].h] EXCEPT !.buffer = <<>>])
    /\ Goto(t, [th[t] EXCEPT !.pc = "ff_sync"])
    /\ UNCHANGED <<loggerVars, histVars, done, term, faults>>

\* FileHandler.Flush: h.file.Sync(); FileHandler.Close goes on to close the
\* file when the flush returned no error
FfSync(t) ==
    /\ At(t, "ff_sync")
    /\ \E ok \in IoOutcomes(th[t].h) :
         LET e == FileErr(th[t].h, ok, "sync") IN
         /\ Goto(t, [th[t] EXCEPT !.herr = e,
                                  !.pc = IF th[t].hop = "close" /\ e = NoErr
                                         THEN "fc_close" ELSE "h_ret"])
         /\ faults' = Spend(ok)
    /\ UNCHANGED <<loggerVars, histVars, hd, done, term>>

\* os.File.Close, io.Closer.Close: the sink is closed, with or without an error
SinkClose(t) ==
    \E ok \in IoOutcomes(th[t].h) :
      /\ HdSet(th[t].h, [hd[th[t].h] EXCEPT !.open = @ \ {hd[th[t].h].fd}])
      /\ Goto(t, [th[t] EXCEPT !.herr = FileErr(th[t].h, ok, "close"), !.pc = "h_ret"])
      /\ faults' = Spend(ok)

\* FileHandler.Close: h.file.Close()
FcClose(t) ==
    /\ At(t, "fc_close")
    /\ SinkClose(t)
    /\ UNCHANGED <<loggerVars, histVars, done, term>>

\* FileHandler.ReopenFile: the path is opened once more and h.file replaced.
\* The file h.file was is not closed, and the bufio writer keeps writing to it.
\* (`before` is history: the records logged before the last reopen.)
ReopenFile(t) ==
    /\ CanStart(t)
    /\ FileH \in Range(registered)
    /\ \E ok \in Outcomes :
         /\ HdSet(FileH, IF ok
                         THEN [hd[FileH] EXCEPT !.fd = @ + 1,
                                                !.open = @ \cup {hd[FileH].fd + 1},
                                                !.before = emitted]
                         ELSE hd[FileH])
         /\ faults' = Spend(ok)
    /\ Goto(t, [IdleThread EXCEPT !.ops = th[t].ops - 1])
    /\ UNCHANGED <<loggerVars, histVars, done, term>>

\* -------------------------------------------------------- BufferedHandler

\* BufferedHandler.Handle: h.Lock()
BhLock(t) ==
    /\ At(t, "bh_lock")
    /\ CanLock(th[t].h)
    /\ HdSet(th[t].h, [hd[th[t].h] EXCEPT !.lock = t])
    /\ Goto(t, [th[t] EXCEPT !.pc = "bh_write"])
    /\ UNCHANGED <<loggerVars, histVars, done, term, faults>>

\* BufferedHandler.Handle: the write on h.buffer begins (the constructor made
\* the buffer, so it is never nil here)
BhWrite(t) ==
    /\ At(t, "bh_write")
    /\ Goto(t, [th[t] EXCEPT !.pc = "bh_store", !.snap = hd[th[t].h].buffer])
    /\ UNCHANGED <<loggerVars, histVars, hd, done, term, faults>>

\* BufferedHandler.Handle: after the write, h.Flush() is called when
\* h.buffer.Buffered() >= h.BuffSize, with the handler's lock still held

\* BufferedHandler.Handle: h.buffer.Write(bts)
BhStore(t) ==
    /\ At(t, "bh_store")
    /\ BufioStore(t, "bh_check")
    /\ UNCHANGED <<loggerVars, histVars, done, term>>

\* BufferedHandler.Handle: if h.buffer.Buffered() >= h.BuffSize, return h.Flush()
BhCheck(t) ==
    /\ At(t, "bh_check")
    /\ Goto(t, [th[t] EXCEPT !.pc = IF Len(hd[th[t].h].buffer) >= hd[th[t].h].BuffSize
                                    THEN "bf_lock" ELSE "bh_unlock"])
    /\ UNCHANGED <<loggerVars, histVars, hd, done, term, faults>>

\* BufferedHandler.Handle: the deferred h.Unlock()
BhUnlock(t) ==
    /\ At(t, "bh_unlock")
    /\ HdSet(th[t].h, [hd[th[t].h] EXCEPT
                         !.lock = 0,
                         !.acc = IF th[t].herr = NoErr THEN @ \cup {th[t].rec} ELSE @])
    /\ Goto(t, [th[t] EXCEPT !.pc = "h_ret"])
    /\ UNCHANGED <<loggerVars, histVars, done, term, faults>>

\* BufferedHandler.Flush: h.Lock()
BfLock(t) ==
    /\ At(t, "bf_lock")
    /\ CanLock(th[t].h)
    /\ HdSet(th[t].h, [hd[th[t].h] EXCEPT !.lock = t])
    /\ Goto(t, [th[t] EXCEPT !.pc = "bf_flush"])
    /\ UNCHANGED <<loggerVars, histVars, done, term, faults>>

\* BufferedHandler.Flush: h.buffer.Flush()
BfFlush(t) ==
    /\ At(t, "bf_flush")
    /\ BufioFlushBegin(t, "bf_unlock", "bf_reset", "bf_inner")
    /\ UNCHANGED <<loggerVars, histVars, done, term>>

\* bufio.Writer.Flush ends: the buffer is marked empty
BfReset(t) ==
    /\ At(t, "bf_reset")
    /\ HdSet(th[t].h, [hd[th[t].h] EXCEPT !.buffer = <<>>])
    /\ Goto(t, [th[t] EXCEPT !.pc = "bf_inner"])
    /\ UNCHANGED <<loggerVars, histVars, done, term, faults>>

\* BufferedHandler.Flush: return h.handler.Flush()
BfInner(t) ==
    /\ At(t, "bf_inner")
    /\ \E ok \in IoOutcomes(th[t].h) :
         /\ Goto(t, [th[t] EXCEPT !.herr = FileErr(th[t].h, ok, "flush"), !.pc = "bf_unlock"])
         /\ faults' = Spend(ok)
    /\ UNCHANGED <<loggerVars, histVars, hd, done, term>>

\* BufferedHandler.Flush: the deferred h.Unlock(), then back to the caller:
\* Handle (which returns what Flush returned), Close (which closes the wrapped
\* handler when Flush returned no error) or the logger
BfUnlock(t) ==
    /\ At(t, "bf_unlock")
    /\ HdSet(th[t].h, [hd[th[t].h] EXCEPT !.lock = 0])
    /\ Goto(t, [th[t] EXCEPT !.pc = IF th[t].hop = "handle" THEN "bh_unlock"
                                    ELSE IF th[t].hop = "close" /\ th[t].herr = NoErr
                                    THEN "bc_close" ELSE "h_ret"])
    /\ UNCHANGED <<loggerVars, histVars, done, term, faults>>

\* BufferedHandler.Close: return h.handler.Close()
BcClose(t) ==
    /\ At(t, "bc_close")
    /\ SinkClose(t)
    /\ UNCHANGED <<loggerVars, histVars, done, term>>

\* ------------------------------------------------------- SyncCloseHandler

\* the rotating writer's retention pass: the oldest backups beyond the count
\* limit are removed (0: no limit)
Retain(bs, n) ==
    IF n > 0 /\ Len(bs) > n THEN SubSeq(bs, Len(bs) - n + 1, Len(bs)) ELSE bs

\* the rotating writer's triggers, checked before a write of n bytes: the
\* write would take the file over MaxSize, or its time is in a later bucket
RotateDue(r, n, later) ==
    \/ r.rc.MaxSize > 0 /\ Len(r.file) + n > r.rc.MaxSize
    \/ r.rc.RotateTime > 0 /\ later

\* the rotation: the file is renamed to a backup, the backup recorded, a fresh
\* file opened at the path, the retention pass run
Rotate(r) ==
    [r EXCEPT !.backups = Retain(Append(@, [seq |-> r.rots + 1, data |-> r.file]),
                                 r.rc.BackupNum),
              !.file = <<>>,
              !.rots = @ + 1]

\* SyncCloseHandler.Handle: the formatted record is written to Output; a
\* rotating Output rotates first when a trigger is met, and when the rename
\* fails it reports the error and writes to the file it has
ShWrite(t) ==
    /\ At(t, "sh_write")
    /\ LET h == th[t].h
           r == hd[h]
       IN \E later \in (IF r.rc.RotateTime > 0 THEN BOOLEAN ELSE {FALSE}) :
          LET due == r.rc.rotate /\ ~Closed(h) /\ RotateDue(r, RecLen, later) IN
          \E rok \in (IF due THEN Outcomes ELSE {TRUE}) :
          \E wok \in IoOutcomes(h) :
             LET we == FileErr(h, wok, "write")
                 e == IF we # NoErr THEN we
                      ELSE IF ~rok THEN Err(h, "rename") ELSE NoErr
                 r1 == IF due /\ rok THEN Rotate(r) ELSE r
                 spent == (IF rok THEN 0 ELSE 1) + (IF wok THEN 0 ELSE 1)
             IN /\ spent <= faults
                /\ faults' = faults - spent
                /\ HdSet(h, [r1 EXCEPT
                                !.file = IF we = NoErr THEN @ \o Bytes(t) ELSE @,
                                !.acc = IF e = NoErr THEN @ \cup {th[t].rec} ELSE @])
                /\ Goto(t, [th[t] EXCEPT !.pc = "h_ret", !.herr = e])
    /\ UNCHANGED <<loggerVars, histVars, done, term>>

\* SyncCloseHandler.Flush: Output.Sync()
SfSync(t) ==
    /\ At(t, "sf_sync")
    /\ \E ok \in IoOutcomes(th[t].h) :
         /\ Goto(t, [th[t] EXCEPT !.herr = FileErr(th[t].h, ok, "sync"), !.pc = "h_ret"])
         /\ faults' = Spend(ok)
    /\ UNCHANGED <<loggerVars, histVars, hd, done, term>>

\* SyncCloseHandler.Close: Output.Close()
ScClose(t) ==
    /\ At(t, "sc_close")
    /\ SinkClose(t)
    /\ UNCHANGED <<loggerVars, histVars, done, term>>

\* ------------------------------------------- Logger: Flush, Close, LastErr

\* Logger.VisitAll: fn is called on each handler of the list in turn; the
\* callbacks of flushAll and Close return nil, so the loop never stops early
VisitAll(t, entry, hop, after) ==
    LET me == th[t] IN
    IF me.idx > Len(me.iter)
    THEN Goto(t, [me EXCEPT !.pc = after])
    ELSE Goto(t, [me EXCEPT !.pc = entry[me.iter[me.idx]], !.h = me.iter[me.idx],
                            !.hop = hop, !.herr = NoErr,
                            !.visited = Append(me.visited, me.iter[me.idx])])

\* callbacks that keep the first error of a pass instead of the last
KeepFirstErr(t, loop) ==
    LET me == th[t] IN
    /\ err' = IF me.herr # NoErr /\ me.fails = <<>> THEN me.herr ELSE err
    /\ unread' = IF me.herr # NoErr THEN me.herr ELSE unread
    /\ Goto(t, [me EXCEPT !.pc = loop, !.idx = me.idx + 1,
                           !.fails = IF me.herr # NoErr THEN Append(@, me.herr) ELSE @])

\* the callbacks of flushAll and Close: a handler's error becomes l.err
KeepErr(t, loop) ==
    LET me == th[t] IN
    /\ err' = IF me.herr # NoErr THEN me.herr ELSE err
    /\ unread' = IF me.herr # NoErr THEN me.herr ELSE unread
    /\ Goto(t, [me EXCEPT !.pc = loop, !.idx = me.idx + 1,
                           !.fails = IF me.herr # NoErr THEN Append(@, me.herr) ELSE @])

\* Logger.Flush (FlushAll, MustFlush)
Flush(t) ==
    /\ CanStart(t)
    /\ Goto(t, [Begin(t, "flush") EXCEPT !.pc = "f_lock"])
    /\ UNCHANGED <<loggerVars, histVars, hd, done, term, faults>>

\* Logger.lockAndFlushAll: l.mu.Lock()
FlushLock(t) ==
    /\ At(t, "f_lock")
    /\ mu = 0
    /\ mu' = t
    /\ Goto(t, [th[t] EXCEPT !.pc = "f_loop", !.iter = handlers, !.idx = 1])
    /\ UNCHANGED <<err, handlers, ExitFunc, PanicFunc, std, processors, recordPool, histVars, hd, done, term, faults>>

\* Logger.flushAll: the next handler's Flush
FlushLoop(t) ==
    /\ At(t, "f_loop")
    /\ VisitAll(t, [h \in Handlers |-> FlushEntry(h)], "flush", "f_unlock")
    /\ UNCHANGED <<loggerVars, histVars, hd, done, term, faults>>

\* Logger.flushAll: the handler's Flush returned
FlushVisited(t) ==
    /\ At(t, "h_ret")
    /\ th[t].ctx \in {"flush", "ftflush"}
    /\ KeepErr(t, "f_loop")
    /\ UNCHANGED <<mu, handlers, ExitFunc, PanicFunc, std, processors, recordPool, registered, handled, emitted, hd,
                   done, term, faults>>

\* Logger.lockAndFlushAll: l.mu.Unlock()
FlushUnlock(t) ==
    /\ At(t, "f_unlock")
    /\ mu' = 0
    /\ Goto(t, [th[t] EXCEPT !.pc = "f_ret"])
    /\ UNCHANGED <<err, handlers, ExitFunc, PanicFunc, std, processors, recordPool, histVars, hd, done, term, faults>>

\* Logger.lockAndFlushAll: return l.err, read after the unlock
FlushReturn(t) ==
    /\ At(t, "f_ret")
    /\ Goto(t, [th[t] EXCEPT !.ret = err,
                             !.pc = IF th[t].ctx = "ftflush" THEN "g_done" ELSE "ret"])
    /\ UNCHANGED <<loggerVars, histVars, hd, done, term, faults>>

\* Logger.Sync: return Flush(), the package's Flush, which is std.Flush()
Sync(t) ==
    /\ CanStart(t)
    /\ Goto(t, [Begin(t, "sync") EXCEPT !.pc = "s_lock"])
    /\ UNCHANGED <<loggerVars, histVars, hd, done, term, faults>>

\* std.lockAndFlushAll: std.mu.Lock()
SyncLock(t) ==
    /\ At(t, "s_lock")
    /\ std.mu = 0
    /\ std' = [std EXCEPT !.mu = t]
    /\ Goto(t, [th[t] EXCEPT !.pc = "s_loop", !.iter = std.handlers, !.idx = 1])
    /\ UNCHANGED <<mu, err, handlers, ExitFunc, PanicFunc, processors, recordPool,
                   histVars, hd, done, term, faults>>

\* std.flushAll: the next handler's Flush
SyncLoop(t) ==
    /\ At(t, "s_loop")
    /\ VisitAll(t, [h \in Handlers |-> FlushEntry(h)], "flush", "s_unlock")
    /\ UNCHANGED <<loggerVars, histVars, hd, done, term, faults>>

\* std.flushAll: the handler's Flush returned, its error becomes std.err
SyncVisited(t) ==
    /\ At(t, "h_ret")
    /\ th[t].ctx = "sync"
    /\ LET me == th[t] IN
       /\ std' = [std EXCEPT !.err = IF me.herr # NoErr THEN me.herr ELSE @]
       /\ Goto(t, [me EXCEPT !.pc = "s_loop", !.idx = me.idx + 1,
                              !.fails = IF me.herr # NoErr THEN Append(@, me.herr) ELSE @])
    /\ UNCHANGED <<mu, err, handlers, ExitFunc, PanicFunc, processors, recordPool,
                   histVars, hd, done, term, faults>>

\* std.lockAndFlushAll: std.mu.Unlock(); return std.err
SyncReturn(t) ==
    /\ At(t, "s_unlock")
    /\ std' = [std EXCEPT !.mu = 0]
    /\ Goto(t, [th[t] EXCEPT !.pc = "ret", !.ret = std.err])
    /\ UNCHANGED <<mu, err, handlers, ExitFunc, PanicFunc, processors, recordPool,
                   histVars, hd, done, term, faults>>

\* Logger.Close: the handlers are visited without l.mu
Close(t) ==
    /\ CanStart(t)
    /\ Goto(t, [Begin(t, "close") EXCEPT !.pc = "c_loop", !.iter = handlers, !.idx = 1])
    /\ UNCHANGED <<loggerVars, histVars, hd, done, term, faults>>

\* Logger.Close: the next handler's Close
CloseLoop(t) ==
    /\ At(t, "c_loop")
    /\ VisitAll(t, [h \in Handlers |-> CloseEntry(h)], "close", "c_ret")
    /\ UNCHANGED <<loggerVars, histVars, hd, done, term, faults>>

\* Logger.Close: the handler's Close returned
CloseVisited(t) ==
    /\ At(t, "h_ret")
    /\ th[t].ctx = "close"
    /\ KeepErr(t, "c_loop")
    /\ UNCHANGED <<mu, handlers, ExitFunc, PanicFunc, std, processors, recordPool, registered, handled, emitted, hd,
                   done, term, faults>>

\* Logger.Close: return l.err
CloseReturn(t) ==
    /\ At(t, "c_ret")
    /\ Goto(t, [th[t] EXCEPT !.ret = err, !.pc = "ret"])
    /\ UNCHANGED <<loggerVars, histVars, hd, done, term, faults>>

\* Logger.LastErr: err := l.err
LastErr(t) ==
    /\ CanStart(t)
    /\ Goto(t, [Begin(t, "lasterr") EXCEPT !.pc = "le_clear", !.ret = err])
    /\ UNCHANGED <<loggerVars, histVars, hd, done, term, faults>>

\* a LastErr that returns the error and leaves it in place
LastErrKeep(t) ==
    /\ At(t, "le_clear")
    /\ err' = err
    /\ unread' = NoErr
    /\ Goto(t, [th[t] EXCEPT !.pc = "ret"])
    /\ UNCHANGED <<mu, handlers, ExitFunc, PanicFunc, std, processors, recordPool, registered, handled, emitted, hd,
                   done, term, faults>>

\* Logger.LastErr: l.err = nil; return err
LastErrClear(t) ==
    /\ At(t, "le_clear")
    /\ err' = NoErr
    /\ unread' = NoErr
    /\ Goto(t, [th[t] EXCEPT !.pc = "ret"])
    /\ UNCHANGED <<mu, handlers, ExitFunc, PanicFunc, std, processors, recordPool, registered, handled, emitted, hd,
                   done, term, faults>>

\* ------------------------------------------------- Logger: FlushTimeout

\* a FlushTimeout that flushes on the caller's own goroutine
FlushTimeoutInline(t) ==
    /\ CanStart(t)
    /\ th[Gor(t)].pc = "idle"
    /\ done' = [done EXCEPT ![t] = FALSE]
    /\ th' = [th EXCEPT ![t] = [Begin(t, "flushtimeout") EXCEPT !.pc = "f_lock"]]
    /\ UNCHANGED <<loggerVars, histVars, hd, term, faults>>

\* Logger.FlushTimeout: the done channel is made and the goroutine started
FlushTimeout(t) ==
    /\ CanStart(t)
    /\ th[Gor(t)].pc = "idle"
    /\ done' = [done EXCEPT ![t] = FALSE]
    /\ th' = [th EXCEPT ![t] = [Begin(t, "flushtimeout") EXCEPT !.pc = "ft_select"],
                        ![Gor(t)] = [IdleThread EXCEPT !.pc = "f_lock", !.ctx = "ftflush"]]
    /\ UNCHANGED <<loggerVars, histVars, hd, term, faults>>

\* the goroutine of FlushTimeout: done <- true, after lockAndFlushAll returned
GoDone(t) ==
    /\ At(t, "g_done")
    /\ done' = [done EXCEPT ![t - NumProcs] = TRUE]
    /\ Goto(t, IdleThread)
    /\ UNCHANGED <<loggerVars, histVars, hd, term, faults>>

\* Logger.FlushTimeout: case <-done
SelectDone(t) ==
    /\ At(t, "ft_select")
    /\ done[t]
    /\ Goto(t, [th[t] EXCEPT !.pc = "ret", !.timedOut = FALSE])
    /\ UNCHANGED <<loggerVars, histVars, hd, done, term, faults>>

\* Logger.FlushTimeout: case <-time.After(timeout)
SelectTimeout(t) ==
    /\ At(t, "ft_select")
    /\ Goto(t, [th[t] EXCEPT !.pc = "ret", !.timedOut = TRUE])
    /\ UNCHANGED <<loggerVars, histVars, hd, done, term, faults>>

\* ------------------------------------------------ Logger: configuration

\* l.AddHandler(h) on a handler just constructed
Register(t, h) ==
    /\ CanStart(t)
    /\ Len(handlers) < MaxHandlers
    /\ h \notin Range(registered)
    /\ handlers' = AddHandler(handlers, h)
    /\ registered' = Append(registered, h)
    /\ \E c \in Constructed(h) : HdSet(h, c)
    /\ Goto(t, [IdleThread EXCEPT !.ops = th[t].ops - 1])
    /\ UNCHANGED <<mu, err, ExitFunc, PanicFunc, std, processors, recordPool, handled, unread, emitted, done, term, faults>>

\* l.ResetHandlers()
ResetHandlers(t) ==
    /\ CanStart(t)
    /\ handlers' = <<>>
    /\ registered' = <<>>
    /\ Goto(t, [Begin(t, "config") EXCEPT !.pc = "ret"])
    /\ UNCHANGED <<mu, err, ExitFunc, PanicFunc, std, processors, recordPool, hd,
                   handled, unread, emitted, done, term, faults>>

\* l.SetHandlers(hs), hs a list of handlers constructed earlier
SetHandlers(t, hs) ==
    /\ CanStart(t)
    /\ \A i \in 1..Len(hs) : hd[hs[i]] # Unbuilt
    /\ handlers' = hs
    /\ registered' = hs
    /\ Goto(t, [Begin(t, "config") EXCEPT !.pc = "ret"])
    /\ UNCHANGED <<mu, err, ExitFunc, PanicFunc, std, processors, recordPool, hd,
                   handled, unread, emitted, done, term, faults>>

\* Logger.AddProcessor
AddProcessor(ps, p) == Append(ps, p)

\* a ResetProcessors that leaves the list as it is
ResetProcessorsKeep(ps) == ps

\* Logger.ResetProcessors
ResetProcessors(ps) == <<>>

\* l.AddProcessor(p)
RegisterProcessor(t, p) ==
    /\ CanStart(t)
    /\ Len(processors) < MaxProcessors
    /\ processors' = AddProcessor(processors, p)
    /\ Goto(t, [Begin(t, "config") EXCEPT !.pc = "ret", !.added = Append(@, p)])
    /\ UNCHANGED <<mu, err, handlers, ExitFunc, PanicFunc, std, recordPool, histVars, hd,
                   done, term, faults>>

\* l.ResetProcessors()
ClearProcessors(t) ==
    /\ CanStart(t)
    /\ processors' = ResetProcessors(processors)
    /\ Goto(t, [Begin(t, "config") EXCEPT !.pc = "ret", !.added = <<>>])
    /\ UNCHANGED <<mu, err, handlers, ExitFunc, PanicFunc, std, recordPool, histVars, hd,
                   done, term, faults>>

\* writers and handlers are built before the logger is used
Constructing == emitted = {}

\* c.CreateHandler() and, when it returned a handler, l.AddHandler(h).  The
\* configs built here ask for no buffer (BuffSize 0).
BuildHandler(t, c) ==
    /\ CanStart(t)
    /\ Constructing
    /\ SyncH \notin Range(registered)
    /\ Len(handlers) < MaxHandlers
    /\ c.BuffSize = 0
    /\ \E ok \in (IF c.Logfile = "" THEN {TRUE} ELSE Outcomes) :
         LET w == CreateWriter(c, ok) IN
         /\ faults' = Spend(ok)
         /\ IF w.err = NoErr
            THEN /\ HdSet(SyncH, [CreateHandler(c.Levels) EXCEPT !.cfg = c, !.rc = w.rc])
                 /\ handlers' = AddHandler(handlers, SyncH)
                 /\ registered' = Append(registered, SyncH)
            ELSE UNCHANGED <<hd, handlers, registered>>
         /\ Goto(t, [Begin(t, "build") EXCEPT
                        !.pc = "ret", !.ret = w.err,
                        !.built = [NoBuilt EXCEPT
                                     !.kind = "handler", !.cfg = c, !.made = w.made,
                                     !.h = IF w.made THEN SyncH ELSE 0]])
    /\ UNCHANGED <<mu, err, ExitFunc, PanicFunc, std, processors, recordPool, handled, unread, emitted, done, term>>

\* c.RotateWriter()
BuildRotateWriter(t, c) ==
    /\ CanStart(t)
    /\ Constructing
    /\ \E ok \in (IF c.Logfile = "" \/ (c.MaxSize = 0 /\ c.RotateTime = 0)
                  THEN {TRUE} ELSE Outcomes) :
         LET w == RotateWriter(c, ok) IN
         /\ faults' = Spend(ok)
         /\ Goto(t, [Begin(t, "build") EXCEPT
                        !.pc = "ret", !.ret = w.err,
                        !.built = [NoBuilt EXCEPT
                                     !.kind = "rotate", !.cfg = c, !.made = w.made]])
    /\ UNCHANGED <<loggerVars, histVars, hd, done, term>>

\* NewBufferedHandler(handler, bufSize): it has no error result
BuildBuffered(t, bufSize) ==
    /\ CanStart(t)
    /\ Constructing
    /\ hd[BufH] = Unbuilt
    /\ HdSet(BufH, NewBufferedHandler(AllLevels, bufSize))
    /\ Goto(t, [Begin(t, "build") EXCEPT
                   !.pc = "ret", !.ret = NoErr,
                   !.built = [NoBuilt EXCEPT
                                !.kind = "buffered",
                                !.cfg = [NoConfig EXCEPT !.BuffSize = bufSize],
                                !.made = TRUE, !.h = BufH]])
    /\ UNCHANGED <<loggerVars, histVars, done, term, faults>>

\* what a sink may offer besides Write
Capabilities == {"Sync", "Flush", "Close"}

\* Builder.Output: nil, or a writer given by the methods it has
NoOutput == {"nil"}
Outputs == (SUBSET Capabilities) \cup {NoOutput}

\* the writer Config.CreateWriter returns is a SyncCloseWriter
CreatedWriter == {"Sync", "Close"}

\* a buildFromWriter that tries FlushCloseWriter before SyncCloseWriter
buildFromWriterFlushFirst(w, bufSize) ==
    [wrap |-> IF {"Flush", "Close"} \subseteq w THEN "FlushCloseHandler"
              ELSE IF {"Sync", "Close"} \subseteq w THEN "SyncCloseHandler"
              ELSE IF "Close" \in w THEN "WriteCloser"
              ELSE "IOWriter",
     buffered |-> bufSize > 0]

\* Builder.buildFromWriter: the handler made for writer w, by the first of
\* SyncCloseWriter, FlushCloseWriter, io.WriteCloser that w implements; w is
\* wrapped in a buffer first when BuffSize > 0
buildFromWriter(w, bufSize) ==
    [wrap |-> IF {"Sync", "Close"} \subseteq w THEN "SyncCloseHandler"
              ELSE IF {"Flush", "Close"} \subseteq w THEN "FlushCloseHandler"
              ELSE IF "Close" \in w THEN "WriteCloser"
              ELSE "IOWriter",
     buffered |-> bufSize > 0]

\* b.Build() of a Builder holding Output out and Config c: from the output
\* when there is one, else from the writer made for c.Logfile; it panics when
\* that writer cannot be made and when there is neither
Build(t, out, c) ==
    /\ CanStart(t)
    /\ Constructing
    /\ \E ok \in (IF out = NoOutput /\ c.Logfile # "" THEN Outcomes ELSE {TRUE}) :
         LET w == CreateWriter(c, ok)
             sink == IF out # NoOutput THEN out ELSE CreatedWriter
             b == buildFromWriter(sink, c.BuffSize)
         IN  /\ faults' = Spend(ok)
             /\ IF out = NoOutput /\ w.err # NoErr
                THEN /\ term' = "panicked"
                     /\ Goto(t, [Begin(t, "build") EXCEPT
                                    !.pc = "dead",
                                    !.built = [NoBuilt EXCEPT !.kind = "builder", !.cfg = c]])
                ELSE /\ term' = term
                     /\ Goto(t, [Begin(t, "build") EXCEPT
                                    !.pc = "ret",
                                    !.built = [NoBuilt EXCEPT
                                                 !.kind = "builder", !.cfg = c,
                                                 !.made = TRUE, !.sink = sink,
                                                 !.wrap = b.wrap,
                                                 !.buffered = b.buffered]])
    /\ UNCHANGED <<loggerVars, histVars, hd, done>>

\* a DoNothingOnPanicFatal that forgets ExitFunc
DoNothingOnPanic(t) ==
    /\ CanStart(t)
    /\ PanicFunc' = "nothing"
    /\ ExitFunc' = ExitFunc
    /\ Goto(t, [IdleThread EXCEPT !.ops = th[t].ops - 1])
    /\ UNCHANGED <<mu, err, handlers, std, processors, recordPool, histVars, hd, done, term, faults>>

\* Logger.DoNothingOnPanicFatal
DoNothingOnPanicFatal(t) ==
    /\ CanStart(t)
    /\ PanicFunc' = "nothing"
    /\ ExitFunc' = "nothing"
    /\ Goto(t, [IdleThread EXCEPT !.ops = th[t].ops - 1])
    /\ UNCHANGED <<mu, err, handlers, std, processors, recordPool, histVars, hd, done, term, faults>>

\* ------------------------------------------------------- specifications

HandleSteps(t) ==
    \/ FhLock(t) \/ FhWrite(t) \/ FhStore(t) \/ FhUnlock(t)
    \/ BhLock(t) \/ BhWrite(t) \/ BhStore(t) \/ BhCheck(t) \/ BhUnlock(t)

Dispatch(t) ==
    \/ WriteLock(t) \/ WriteLoop(t) \/ WriteHandled(t) \/ WriteAfter(t)
    \/ WriteUnlock(t) \/ ReleaseRecord(t) \/ Returned(t)

FlushSteps(t) ==
    \/ FlushLock(t) \/ FlushLoop(t) \/ FlushVisited(t) \/ FlushUnlock(t) \/ FlushReturn(t)
    \/ FfFlush(t) \/ FfReset(t) \/ FfSync(t)
    \/ BfLock(t) \/ BfFlush(t) \/ BfReset(t) \/ BfInner(t) \/ BfUnlock(t)

CloseSteps(t) ==
    \/ CloseLoop(t) \/ CloseVisited(t) \/ CloseReturn(t)
    \/ FcClose(t) \/ BcClose(t)

\* Callers log at any level to the handlers registered, register handlers
\* and switch the terminal actions off, while writes may fail.
Next ==
    \E t \in Threads :
       \/ \E lv \in AllLevels : Log(t, lv)
       \/ Dispatch(t) \/ HandleSteps(t) \/ ShWrite(t)
       \/ \E h \in Handlers : Register(t, h)
       \/ DoNothingOnPanicFatal(t)

Init == Setup(HandlerLists(Handlers), 1, {[p \in Procs |-> IF p = 1 THEN MaxOps ELSE 1]})

Spec == Init /\ [][Next]_vars

\* One caller issues logging calls, Flush, Close and LastErr one after the
\* other, while any I/O call may fail.
SeqOps == 3
NextSeq ==
    \E t \in Threads :
       \/ Log(t, "info")
       \/ Dispatch(t) \/ HandleSteps(t) \/ ShWrite(t)
       \/ Flush(t) \/ FlushSteps(t) \/ SfSync(t)
       \/ Close(t) \/ CloseSteps(t) \/ ScClose(t)
       \/ LastErr(t) \/ LastErrClear(t)

InitSeq == Setup(HandlerLists(Handlers), MaxFaults, {[p \in Procs |-> IF p = 1 THEN SeqOps ELSE 0]})

SpecSeq == InitSeq /\ [][NextSeq]_vars

\* M callers emit K records each through one logger to one handler, a
\* FileHandler or a BufferedHandler, on a healthy sink; when all have
\* emitted, each flushes the logger.
EmitLog(t) == th[t].ops > 1 /\ Log(t, "info")
FlushAfterJoin(t) ==
    /\ \A p \in Procs : th[p].pc = "idle" /\ th[p].ops <= 1
    /\ Flush(t)

NextEmit ==
    \E t \in Threads :
       \/ EmitLog(t)
       \/ Dispatch(t) \/ HandleSteps(t)
       \/ FlushAfterJoin(t) \/ FlushSteps(t)

InitEmit == Setup({<<FileH>>, <<BufH>>}, 0, {[p \in Procs |-> k + 1] : k \in 1..MaxOps})

SpecEmit == InitEmit /\ [][NextEmit]_vars

\* Callers log, flush and close one logger concurrently.
NextRace ==
    \E t \in Threads :
       \/ Log(t, "info")
       \/ Dispatch(t) \/ HandleSteps(t)
       \/ Flush(t) \/ FlushSteps(t)
       \/ Close(t) \/ CloseSteps(t)

InitRace == Setup({<<FileH>>, <<BufH>>}, 0, {[p \in Procs |-> MaxOps]})

SpecRace == InitRace /\ [][NextRace]_vars

\* Callers log and call FlushTimeout.
NextTimeout ==
    \E t \in Threads :
       \/ Log(t, "info")
       \/ Dispatch(t) \/ HandleSteps(t)
       \/ FlushSteps(t)
       \/ FlushTimeout(t) \/ GoDone(t) \/ SelectDone(t) \/ SelectTimeout(t)

InitTimeout == Setup({<<FileH>>, <<BufH>>}, 1, {[p \in Procs |-> IF p = 1 THEN MaxOps ELSE 1]})

SpecTimeout == InitTimeout /\ [][NextTimeout]_vars

\* The same callers, each goroutine scheduled again and again: a step of a
\* call under way that stays possible is taken in the end.
Step(t) ==
    \/ Dispatch(t) \/ HandleSteps(t) \/ FlushSteps(t)
    \/ GoDone(t) \/ SelectDone(t) \/ SelectTimeout(t)

SpecTimeoutFair == SpecTimeout /\ \A t \in Threads : WF_vars(Step(t))

\* One caller logs to, flushes, reopens and closes a FileHandler.
NextReopen ==
    \E t \in Threads :
       \/ Log(t, "info") \/ Dispatch(t)
       \/ FhLock(t) \/ FhWrite(t) \/ FhStore(t) \/ FhUnlock(t)
       \/ Flush(t) \/ FlushLock(t) \/ FlushLoop(t) \/ FlushVisited(t)
       \/ FlushUnlock(t) \/ FlushReturn(t)
       \/ FfFlush(t) \/ FfReset(t) \/ FfSync(t)
       \/ Close(t) \/ CloseLoop(t) \/ CloseVisited(t) \/ CloseReturn(t) \/ FcClose(t)
       \/ ReopenFile(t)

InitReopen == Setup({<<FileH>>}, 1, {[p \in Procs |-> IF p = 1 THEN SeqOps ELSE 0]})

SpecReopen == InitReopen /\ [][NextReopen]_vars

\* One caller builds writers and handlers from configs.
NextConfig ==
    \E t \in Threads :
       \/ \E c \in Configs : BuildHandler(t, c) \/ BuildRotateWriter(t, c)
       \/ \E bs \in 0..MaxBufSize : BuildBuffered(t, bs)
       \/ Returned(t)

InitConfig == Setup({<<>>}, 1, {[p \in Procs |-> IF p = 1 THEN MaxOps ELSE 0]})

SpecConfig == InitConfig /\ [][NextConfig]_vars

\* One caller logs to a logger with a FileHandler and calls its Sync, while
\* the default logger has no handler or one config-built handler.
NextSync ==
    \E t \in Threads :
       \/ Log(t, "info") \/ Dispatch(t)
       \/ FhLock(t) \/ FhWrite(t) \/ FhStore(t) \/ FhUnlock(t)
       \/ Sync(t) \/ SyncLock(t) \/ SyncLoop(t) \/ SyncVisited(t) \/ SyncReturn(t)
       \/ SfSync(t)

InitSync ==
    SetupStd({<<FileH>>}, {<<>>, <<SyncH>>}, 1,
             {[p \in Procs |-> IF p = 1 THEN SeqOps ELSE 0]})

SpecSync == InitSync /\ [][NextSync]_vars

\* Callers log to, flush and close a logger with a FileHandler while its
\* handler list is added to, replaced and reset.
NextList ==
    \E t \in Threads :
       \/ Log(t, "info") \/ Dispatch(t)
       \/ FhLock(t) \/ FhWrite(t) \/ FhStore(t) \/ FhUnlock(t) \/ ShWrite(t)
       \/ Flush(t) \/ FlushLock(t) \/ FlushLoop(t) \/ FlushVisited(t)
       \/ FlushUnlock(t) \/ FlushReturn(t)
       \/ FfFlush(t) \/ FfReset(t) \/ FfSync(t) \/ SfSync(t)
       \/ Close(t) \/ CloseLoop(t) \/ CloseVisited(t) \/ CloseReturn(t)
       \/ FcClose(t) \/ ScClose(t)
       \/ Register(t, SyncH) \/ ResetHandlers(t)
       \/ \E hs \in HandlerLists({FileH, SyncH}) : SetHandlers(t, hs)

InitList == Setup({<<FileH>>}, 0, {[p \in Procs |-> MaxOps]})

SpecList == InitList /\ [][NextList]_vars

\* Callers build a handler from a config, register it, then log to, flush
\* and close the logger concurrently.
NextEngine ==
    \E t \in Threads :
       \/ \E c \in Configs : BuildHandler(t, c)
       \/ Log(t, "info") \/ Dispatch(t) \/ ShWrite(t)
       \/ Flush(t) \/ FlushLock(t) \/ FlushLoop(t) \/ FlushVisited(t)
       \/ FlushUnlock(t) \/ FlushReturn(t) \/ SfSync(t)
       \/ Close(t) \/ CloseLoop(t) \/ CloseVisited(t) \/ CloseReturn(t) \/ ScClose(t)

InitEngine == Setup({<<>>}, 0, {[p \in Procs |-> IF p = 1 THEN MaxOps ELSE 1]})

SpecEngine == InitEngine /\ [][NextEngine]_vars

\* One caller builds handlers with a Builder, from outputs and configs.
NextBuild ==
    \E t \in Threads :
       \/ \E out \in Outputs, c \in Configs : Build(t, out, c)
       \/ Returned(t)

InitBuild == Setup({<<>>}, 1, {[p \in Procs |-> IF p = 1 THEN MaxOps ELSE 0]})

SpecBuild == InitBuild /\ [][NextBuild]_vars

\* One caller builds a handler from a config, registers it and logs through
\* it, while writes and rotations may fail.
RotOps == 5
NextRotate ==
    \E t \in Threads :
       \/ \E c \in Configs : BuildHandler(t, c)
       \/ Log(t, "info") \/ Dispatch(t) \/ ShWrite(t)

InitRotate == Setup({<<>>}, 1, {[p \in Procs |-> IF p = 1 THEN RotOps ELSE 0]})

SpecRotate == InitRotate /\ [][NextRotate]_vars

\* One caller adds processors, resets them and logs, to a logger with one
\* config-built handler.
NextProc ==
    \E t \in Threads :
       \/ \E p \in Processors : RegisterProcessor(t, p)
       \/ ClearProcessors(t)
       \/ Log(t, "info") \/ Dispatch(t) \/ ShWrite(t)

ProcOps == 4
InitProc ==
    Setup({<<SyncH>>}, 1, {[p \in Procs |-> IF p = 1 THEN ProcOps ELSE 0]})

SpecProc == InitProc /\ [][NextProc]_vars

\* Callers log through Logger.log and through the record Logger.WithContext
\* returns, to a logger with one config-built handler.
NextPool ==
    \E t \in Threads :
       \/ Log(t, "info") \/ WithContext(t) \/ RecordLog(t, "info") \/ RecordReturn(t)
       \/ Dispatch(t) \/ ShWrite(t)

InitPool == Setup({<<SyncH>>}, 1, {[p \in Procs |-> MaxOps]})

SpecPool == InitPool /\ [][NextPool]_vars

\* ------------------------------------------------------------ properties

\* the bytes handler h has taken, in order: on its sink, then in its buffer
Stream(h) == hd[h].file \o hd[h].buffer

\* s is made of whole lines: each record's bytes contiguous and in order
WholeLines(s) ==
    /\ Len(s) % RecLen = 0
    /\ \A k \in 0..((Len(s) \div RecLen) - 1) :
         SubSeq(s, k * RecLen + 1, (k + 1) * RecLen)
            = Format([id |-> s[k * RecLen + 1].id, lv |-> s[k * RecLen + 1].lv])

\* s holds one whole line for each record of recs and nothing else
ExactlyOnce(s, recs) ==
    /\ WholeLines(s)
    /\ Len(s) = RecLen * Cardinality(recs)
    /\ {s[i].id : i \in 1..Len(s)} = {r.id : r \in recs}

\* every caller has issued all its calls and is back from them
AllReturned == \A p \in Procs : th[p].pc = "idle" /\ th[p].ops = 0

\* C1: M callers emitting K records each through one logger to one handler (a
\* FileHandler or a BufferedHandler) put exactly M*K lines on the sink, none
\* torn or interleaved: the handler's bytes are whole lines at every moment,
\* and when no caller can take a further step every caller has returned from
\* all its calls and the sink holds each emitted record exactly once.
C1_AllLinesOnce ==
    /\ \A h \in Range(handlers) : WholeLines(Stream(h))
    /\ (~ENABLED NextEmit) =>
          /\ AllReturned
          /\ \A h \in Range(handlers) : ExactlyOnce(hd[h].file, emitted)

\* C1, the part the code keeps: the callers have returned from everything and
\* the FileHandler's file holds the M*K records, each once
C1_FileHandlerComplete ==
    /\ handlers = <<FileH>>
    /\ AllReturned
    /\ Cardinality(emitted) = NumProcs * MaxOps
    /\ ExactlyOnce(hd[FileH].file, emitted)

\* the handlers that buffer what they are given
Buffering(h) == h = BufH \/ (h = FileH /\ ~hd[h].NoBuffer)

\* C9: after every successful Handle of a buffering handler the buffer holds
\* strictly less than its capacity (an occupancy at or over the capacity was
\* flushed before the write returned).
C9_BelowCapacityAfterHandle ==
    \A t \in Threads :
       (th[t].pc = "h_ret" /\ th[t].hop = "handle" /\ th[t].herr = NoErr
            /\ Buffering(th[t].h))
          => Len(hd[th[t].h].buffer) < hd[th[t].h].BuffSize

\* a thread is inside Handle's locked section on h / has written h's buffer
\* out in a Flush or Close and not yet finished with it
InHandle(t, h) ==
    th[t].h = h /\ th[t].pc \in {"fh_write", "fh_store", "fh_unlock",
                                 "bh_write", "bh_store", "bh_check", "bh_unlock"}
InFlush(t, h) ==
    th[t].h = h /\ th[t].hop \in {"flush", "close"}
                /\ th[t].pc \in {"ff_reset", "bf_flush", "bf_reset", "bf_inner", "bf_unlock"}

\* C10: Handle, Flush and Close of a buffering handler are protected by the
\* same lock: no flush or close of a handler is under way while another
\* goroutine is inside a write on that handler.
C10_FlushExcludesWrite ==
    \A h \in Handlers : \A t, u \in Threads :
       t # u => ~(InHandle(t, h) /\ InFlush(u, h))

Accepting(l, lv) == SelectSeq(l, LAMBDA h : IsHandling(h, lv))
IsPrefix(a, b) == Len(a) <= Len(b) /\ SubSeq(b, 1, Len(a)) = a
FanOutDone(t) ==
    th[t].ctx = "log" /\ th[t].pc \in {"w_after", "w_unlock", "release", "ret", "dead"}

\* C3: before a logging call returns, the record has been presented to every
\* registered handler accepting its level, in registration order, whether or
\* not an earlier handler returned an error.
C3_FanOutOrder ==
    \A t \in Threads :
       FanOutDone(t) =>
          /\ th[t].visited = Accepting(th[t].iter, th[t].rec.lv)
          /\ IsPrefix(th[t].iter, registered)

\* C3: the first handler of two returned an error and the second was still
\* given the record
C3_ErrorThenNext ==
    \E t \in Procs :
       /\ FanOutDone(t)
       /\ Len(th[t].visited) = 2
       /\ Len(th[t].fails) >= 1
       /\ th[t].fails[1][1] = th[t].visited[1]

Terminal == {"panic", "fatal"}

\* C8: a Fatal or Panic call invokes the terminal action exactly once, after
\* the fan-out to all handlers is complete, whatever the handlers returned;
\* once DoNothingOnPanicFatal is installed no logging call ends the process.
C8_TerminalOnce ==
    /\ \A t \in Threads :
          th[t].ctx = "log" =>
             /\ th[t].tcalls <= 1
             /\ (th[t].tcalls = 1) =>
                   /\ th[t].rec.lv \in Terminal
                   /\ th[t].idx > Len(th[t].iter)
                   /\ th[t].visited = Accepting(th[t].iter, th[t].rec.lv)
             /\ (th[t].pc \in {"w_unlock", "release", "ret", "dead"}) =>
                   ((th[t].tcalls = 1) <=> (th[t].rec.lv \in Terminal))
    /\ (PanicFunc = "nothing" \/ ExitFunc = "nothing") => term = "run"

\* C8: with the terminal actions switched off, a Fatal or Panic call whose
\* handler failed has invoked the (no-op) terminal action once and returned
C8_ReturnedAfterNothing ==
    \E t \in Procs :
       /\ th[t].ctx = "log" /\ th[t].pc = "ret"
       /\ th[t].rec.lv \in Terminal
       /\ th[t].tcalls = 1
       /\ th[t].fails # <<>>
       /\ \E h \in Handlers : th[t].rec \in handled[h]

Last(s) == s[Len(s)]

\* C4: Logger.Flush and Logger.Close visit every registered handler in
\* registration order even when one of them fails, and when handlers failed in
\* the pass the error kept, and returned, is that of the last one that failed.
C4_VisitAllKeepLast ==
    \A t \in Procs :
       (th[t].ctx \in {"flush", "close"} /\ th[t].pc = "ret") =>
          /\ th[t].visited = registered
          /\ (th[t].fails # <<>>) =>
                (err = Last(th[t].fails) /\ th[t].ret = Last(th[t].fails))

\* C4: two handlers failed in one pass, and the second one's error was kept
C4_TwoFailures ==
    \E t \in Procs :
       /\ th[t].ctx \in {"flush", "close"} /\ th[t].pc = "ret"
       /\ Len(th[t].fails) = 2
       /\ th[t].fails[1] # th[t].fails[2]
       /\ err = th[t].fails[2]

\* C5: LastErr returns the most recent error a handler call returned since the
\* last LastErr (nil when there is none), and leaves no error behind.
C5_LastErrOnce ==
    \A t \in Procs :
       /\ (th[t].pc = "le_clear") => th[t].ret = unread
       /\ (th[t].ctx = "lasterr" /\ th[t].pc = "ret") => err = NoErr

\* C5: a LastErr called right after a LastErr that returned an error has read nil
C5_SecondReadsNil ==
    \E t \in Procs :
       /\ th[t].pc = "le_clear"
       /\ th[t].last.ctx = "lasterr"
       /\ th[t].last.ret # NoErr
       /\ th[t].ret = NoErr

\* C6: a Flush called right after a Flush, in which no handler's Flush failed,
\* leaves the sinks as the first Flush left them and returns no error.
C6_SecondFlushClean ==
    \A t \in Procs :
       (th[t].ctx = "flush" /\ th[t].pc = "ret" /\ th[t].last.ctx = "flush"
            /\ th[t].fails = <<>>)
          => /\ th[t].last.sink = [h \in Handlers |-> hd[h].file]
             /\ th[t].ret = NoErr

\* while FlushTimeout waits, its caller can take the timeout branch and holds
\* neither the dispatch lock nor a handler's lock
CallerFree(p) ==
    (th[p].ctx = "flushtimeout" /\ th[p].pc # "ret") =>
       /\ ENABLED SelectTimeout(p)
       /\ mu # p
       /\ \A h \in Handlers : hd[h].lock # p

\* the timeout branch leaves the flush goroutine, the locks, the handlers and
\* the done channel as they are
FlushAbandoned(p) ==
    (th[p].pc = "ft_select" /\ th'[p].pc = "ret" /\ th'[p].timedOut) =>
       /\ th'[Gor(p)] = th[Gor(p)]
       /\ mu' = mu /\ hd' = hd /\ done' = done

\* C7: FlushTimeout returns on the timeout whatever the flush is doing - its
\* caller never waits for the flush - and the flush is left running, not
\* cancelled.
C7_TimeoutAbandonsFlush ==
    /\ [](\A p \in Procs : CallerFree(p))
    /\ [][\A p \in Procs : FlushAbandoned(p)]_vars

\* C7: FlushTimeout has returned reporting the timeout while its goroutine is
\* inside a handler's Flush
C7_TimedOutMidFlush ==
    \E p \in Procs :
       /\ th[p].ctx = "flushtimeout" /\ th[p].pc = "ret" /\ th[p].timedOut
       /\ th[Gor(p)].pc \in {"ff_flush", "ff_reset", "ff_sync", "bf_lock", "bf_flush",
                             "bf_reset", "bf_inner", "bf_unlock"}

\* the records whose every byte is on h's sink
OnSink(h) == {r \in emitted : \E k \in 0..(Len(hd[h].file) - RecLen) :
                 SubSeq(hd[h].file, k + 1, k + RecLen) = Format(r)}

\* the handler's Close has just closed the sink (h.file.Close() was called)
JustClosed(t) ==
    /\ th[t].pc = "h_ret" /\ th[t].hop = "close"
    /\ (th[t].herr = NoErr \/ th[t].herr = Err(th[t].h, "close"))

\* C11: when a handler's Close closes the sink, every record an earlier Handle
\* accepted is on the sink already, and when Close returns no error the buffer
\* is empty and the sink is closed.
C11_CloseFlushesFirst ==
    \A t \in Procs :
       JustClosed(t) =>
          /\ hd[th[t].h].acc \subseteq OnSink(th[t].h)
          /\ (th[t].herr = NoErr) =>
                (hd[th[t].h].buffer = <<>> /\ Closed(th[t].h))

\* C11: Close of a buffering handler returned nil after a Handle had left
\* bytes in its buffer
C11_ClosedAfterBuffered ==
    \E t \in Procs :
       /\ JustClosed(t) /\ th[t].herr = NoErr
       /\ Buffering(th[t].h)
       /\ hd[th[t].h].acc # {}
       /\ th[t].last.ctx = "log"

\* C12: at most one file handle is open on a FileHandler's path, whatever
\* NewFileHandler, Handle, Flush, ReopenFile and Close calls were made.
C12_OneOpenHandle == Cardinality(hd[FileH].open) <= 1

\* the construction was given a configuration error: no log file path, a
\* rotating writer with both triggers off, a buffer of capacity zero
ConfigError(b) ==
    \/ b.kind \in {"handler", "rotate"} /\ b.cfg.Logfile = ""
    \/ b.kind = "rotate" /\ b.cfg.MaxSize = 0 /\ b.cfg.RotateTime = 0
    \/ b.kind = "buffered" /\ b.cfg.BuffSize = 0

\* C13: a constructor given a configuration error returns an error and no
\* writer or handler.
C13_ConfigErrorsRaised ==
    \A t \in Procs :
       (th[t].ctx = "build" /\ th[t].pc = "ret" /\ ConfigError(th[t].built))
          => (th[t].ret # NoErr /\ ~th[t].built.made)

\* the handler was built from a config that rotates on size alone, and no
\* write or rotation has failed so far
SizeOnly(h) ==
    /\ hd[h].cfg.MaxSize > 0
    /\ hd[h].cfg.RotateTime = 0
    /\ err = NoErr
    /\ \A t \in Procs : th[t].herr = NoErr

\* the whole records a file of at most S bytes holds
PerFile(S) == S \div RecLen

\* the write of a record to h by t lands in this step
Lands(t, h) ==
    /\ At(t, "sh_write") /\ th[t].h = h
    /\ th'[t].pc = "h_ret" /\ th'[t].herr = NoErr

Formatting(t) == th[t].hop = "handle" /\ th[t].pc = "sh_write"

\* C16: when a handler formats a record, the processors applied to it are
\* those added since the last ResetProcessors, all of them, in the order added.
C16_ProcessorsApplied ==
    \A t \in Procs : Formatting(t) => th[t].applied = th[t].added

\* C16: a record is formatted after a processor was added, the processors
\* reset and another processor added: only the latter was applied
C16_AfterReset ==
    \E t \in Procs :
       /\ Formatting(t)
       /\ th[t].applied = <<"memoryUsage">>
       /\ th[t].last.ctx = "config"
       /\ th[t].ops = ProcOps - 4
       /\ Cardinality(emitted) = 1

\* C19: a record is in the pool only when the call it was taken for is over,
\* and every record in the pool has all its mutable fields at their zero value.
C19_ReleasedWhenConsumedAndReset ==
    /\ \A t \in Procs : th[t].released => th[t].pc \in {"ret", "idle"}
    /\ \A fs \in recordPool : fs \cap RecordFields = {}

\* the handlers a Builder makes, the methods each needs of its writer, and
\* their order from least to most capable
HandlerKinds == {"IOWriter", "WriteCloser", "FlushCloseHandler", "SyncCloseHandler"}
Needs(k) ==
    IF k = "SyncCloseHandler" THEN {"Sync", "Close"}
    ELSE IF k = "FlushCloseHandler" THEN {"Flush", "Close"}
    ELSE IF k = "WriteCloser" THEN {"Close"}
    ELSE {}
Rank(k) ==
    IF k = "SyncCloseHandler" THEN 4
    ELSE IF k = "FlushCloseHandler" THEN 3
    ELSE IF k = "WriteCloser" THEN 2
    ELSE 1

\* b.Build() has returned a handler to t
BuiltBy(t) ==
    /\ th[t].pc = "ret" /\ th[t].ctx = "build"
    /\ th[t].built.kind = "builder"

C18_SyncIsFlush ==
    \A t \in Procs :
       (th[t].ctx = "sync" /\ th[t].pc = "ret") =>
          /\ th[t].visited = handlers
          /\ th[t].ret = err

\* t is inside Logger.Close, between reading the handler list and returning
Closing(t) == th[t].ctx = "close" /\ th[t].pc \notin {"idle", "ret"}

\* C20: while a logging call or a Flush holds the dispatch lock and iterates
\* the handler list, the list is the one it began to iterate and no Close is
\* going through it.
C20_ListGuarded ==
    \A t \in Threads :
       mu = t =>
          /\ th[t].iter = handlers
          /\ \A u \in Threads \ {t} : ~Closing(u)

\* C21: no call of BufferedHandler.Handle waits for the handler's lock while
\* holding it: the flush Handle runs when the buffer holds BuffSize bytes does
\* not stop at the lock, so Handle goes on to return.
C21_HandleNeverSelfWaits ==
    \A t \in Threads :
       ~(th[t].hop = "handle" /\ th[t].pc = "bf_lock" /\ hd[th[t].h].lock = t)

\* FlushTimeout has returned to p because the deadline elapsed
TimedOut(p) ==
    th[p].ctx = "flushtimeout" /\ th[p].pc = "ret" /\ th[p].timedOut

\* C22: a flush abandoned by FlushTimeout runs to its end - its goroutine
\* gives the dispatch lock back and sends on done - and every call waiting for
\* the dispatch lock gets it.
C22_AbandonedFlushCompletes ==
    /\ \A p \in Procs : TimedOut(p) ~> (th[Gor(p)].pc = "idle" /\ done[p])
    /\ \A t \in Threads : (th[t].pc \in {"w_lock", "f_lock"}) ~> (mu = t)

\* C23: a record handed to a caller is that caller's alone: no two callers
\* refer to the same record at once.
C23_RecordOwnedByOneCaller ==
    \A t, u \in Procs :
       (t # u /\ Holding(t) /\ Holding(u)) => th[u].alias # t

\* t is about to call the rotating writer of h: Write, Sync or Close
AtEngine(t, h) ==
    /\ th[t].h = h /\ hd[h].rc.rotate
    /\ th[t].pc \in {"sh_write", "sf_sync", "sc_close"}

\* C24: whoever calls the rotating writer of a config-built handler holds the
\* logger's dispatch lock, so that no two goroutines are in it at once.
C24_EngineUnderLock ==
    \A t \in Threads :
       AtEngine(t, SyncH) =>
          /\ mu = t
          /\ \A u \in Threads \ {t} : ~AtEngine(u, SyncH)

\* the file handle the next write of t on the FileHandler goes through: h.file
\* for a direct write, the file the bufio writer wraps for a buffered one
Through(t) ==
    IF th[t].pc = "fh_write" THEN hd[FileH].fd ELSE hd[FileH].bfd

\* C25: after a ReopenFile that succeeded, the bytes of every record handled
\* afterwards are written through the newly opened file, none through the file
\* that was open before, and the reopen leaves the buffered bytes in place.
C25_WritesGoToReopenedFile ==
    [][/\ \A t \in Threads :
            \A i \in (Len(hd[FileH].file) + 1) .. Len(hd'[FileH].file) :
               (/\ th'[t] # th[t]
                /\ hd'[FileH].file[i].id \notin {r.id : r \in hd[FileH].before})
                  => Through(t) = hd[FileH].fd
       /\ hd'[FileH].fd # hd[FileH].fd => hd'[FileH].buffer = hd[FileH].buffer]_vars

====
